---- MODULE Spec2Model ----
(***************************************************************************)
(* Model of src/main.py: the page-by-page OCR pipeline.                    *)
(*                                                                         *)
(* process_pipeline opens the CSV, loops over range(start_page,            *)
(* end_page + 1), calls process_single_image for every page and counts     *)
(* its boolean result.  process_single_image checks that the file exists,  *)
(* calls extract_roi_text (imread, crop, preprocess, OCR, confidence       *)
(* filter) and, for a non-empty list, save_to_csv (rows of 4 fragments     *)
(* joined by two spaces).                                                  *)
(*                                                                         *)
(* A text is a sequence of one-character strings, so that joining is a     *)
(* real concatenation.  A confidence is an integer number of hundredths.   *)
(* The outside world (file system, image decoder, OCR engine, CSV file)    *)
(* answers nondeterministically, one answer per call.                      *)
(***************************************************************************)
EXTENDS Integers, Sequences, FiniteSets

VARIABLES
    start_page,        \* argument of process_pipeline
    end_page,          \* argument of process_pipeline
    pc,                \* position of the single thread of control
    it,                \* range iterator of the page loop: index of the next
                       \* element, 0 before the loop is entered
    page_num,          \* loop variable of the page loop
    successful_pages,  \* counter, main.py:158
    failed_pages,      \* counter, main.py:159
    csv_open,          \* the with-block holds the file open
    csv,               \* rows written so far, each row a sequence of fields
    image,             \* what cv2.imread returned
    roi,               \* shape of image[y1:y2, x1:x2]
    result,            \* what ocr.ocr returned
    extracted_text,    \* the list extract_roi_text builds and returns
    i,                 \* loop variable of save_to_csv (0-based offset)
    ret,               \* value returned by process_single_image
    summary,           \* the completion summary, <<>> until printed
    log,               \* history: what happened to each page
    wrote              \* history: the page that wrote each row of csv

vars == <<start_page, end_page, pc, it, page_num, successful_pages,
          failed_pages, csv_open, csv, image, roi, result, extracted_text,
          i, ret, summary, log, wrote>>

(***************************************************************************)
(* Program constants.                                                      *)
(***************************************************************************)
MinPage == 2              \* default start_page
ConfThreshold == 60       \* confidence > 0.6, in hundredths
ChunkSize == 4            \* range(0, len, 4) and [i:i+4]
X1 == 346                 \* roi_coords
Y1 == 161
X2 == 635
Y2 == 940
Sep == <<" ", " ">>       \* the separator "  " of "  ".join

(***************************************************************************)
(* Bounds of the model.                                                    *)
(***************************************************************************)
MaxPage == 4              \* pages are MinPage..MaxPage
MaxLines == 5             \* OCR lines per page, single-page specification
MaxPipeLines == 5         \* OCR lines per page, pipeline specification

Pages == MinPage..MaxPage
NoPage == MinPage - 1     \* page_num before the first iteration

Min(a, b) == IF a < b THEN a ELSE b
Max(a, b) == IF a > b THEN a ELSE b

(***************************************************************************)
(* The values the outside world can return.                                *)
(***************************************************************************)
\* cv2.imread: None, or an array of shape (h, w, 3)
NoImage == [loaded |-> FALSE, h |-> 0, w |-> 0]
ImageShapes == {[loaded |-> TRUE, h |-> hh, w |-> ww] : hh \in {Y1, Y2}, ww \in {X1, X2}}
NoRoi == [h |-> 0, w |-> 0]

\* ocr.ocr: None, or a list whose elements are None or a list of lines;
\* a line carries (text, confidence) at line[1]
NoneValue == [isNone |-> TRUE, items |-> <<>>]
ListOf(s) == [isNone |-> FALSE, items |-> s]
Line(t, c) == [text |-> t, confidence |-> c]

Confs == {ConfThreshold - 1, ConfThreshold, ConfThreshold + 1}
Texts == {<<>>, <<"a">>, <<"b", " ">>, <<" ", "a">>}
PipeTexts == {<<"a">>}
PipeConfs == {ConfThreshold, ConfThreshold + 1}

LinesOver(T, C) == {Line(t, c) : t \in T, c \in C}

\* the results without a list of lines: None, [] and [None]
NoLines == {NoneValue, ListOf(<<>>), ListOf(<<NoneValue>>)}

\* the result [lines]
WithLines(ls) == ListOf(<<ListOf(ls)>>)

(***************************************************************************)
(* Pure parts of the code.                                                 *)
(***************************************************************************)
\* Python truthiness of a value that is None or a list
Truthy(v) == ~v.isNone /\ Len(v.items) > 0

\* s[lo:hi] for 0 <= lo <= hi
Slice(s, lo, hi) == SubSeq(s, lo + 1, Min(hi, Len(s)))

\* "  ".join(texts)
RECURSIVE Join(_)
Join(texts) ==
    IF Len(texts) = 0 THEN <<>>
    ELSE IF Len(texts) = 1 THEN texts[1]
    ELSE texts[1] \o Sep \o Join(Tail(texts))

\* mutation of Accept: the threshold itself is accepted
AcceptAtThreshold(confidence) == confidence >= ConfThreshold

\* the confidence test of main.py:83
Accept(confidence) == confidence > ConfThreshold

\* the loop of main.py:80-84 over result[0]
RECURSIVE FilterLines(_)
FilterLines(lines) ==
    IF Len(lines) = 0 THEN <<>>
    ELSE LET line == lines[1]
             rest == FilterLines(Tail(lines))
         IN IF Accept(line.confidence) THEN <<line.text>> \o rest ELSE rest

\* main.py:78-86
ExtractTexts(res) ==
    IF Truthy(res) /\ Truthy(res.items[1])
    THEN FilterLines(res.items[1].items)
    ELSE <<>>

\* mutation of PageRange: the pages in descending order
PageRangeDown(s, e) == [k \in 1..Max(0, e + 1 - s) |-> e - (k - 1)]

\* range(start_page, end_page + 1), as the sequence of its elements
PageRange(s, e) == [k \in 1..Max(0, e + 1 - s) |-> s + (k - 1)]

\* shape of image[y1:y2, x1:x2]
CropShape(img) ==
    [h |-> Max(0, Min(Y2, img.h) - Y1), w |-> Max(0, Min(X2, img.w) - X1)]

\* cv2.cvtColor raises on an empty array
PreprocessRaises(r) == r.h = 0 \/ r.w = 0

(***************************************************************************)
(* History records.                                                        *)
(***************************************************************************)
NewLog == [attempts |-> 0, ocr_calls |-> 0, cause |-> "none",
           extracted |-> FALSE, texts |-> <<>>, save_done |-> FALSE,
           write_error |-> FALSE,
           counted |-> "none"]

Mark(p, field, value) == [log EXCEPT ![p][field] = value]

(***************************************************************************)
(* Initial states: the state at entry of process_pipeline.                 *)
(***************************************************************************)
InitLocals ==
    /\ pc = "open"
    /\ it = 0
    /\ page_num = NoPage
    /\ successful_pages = 0
    /\ failed_pages = 0
    /\ csv_open = FALSE
    /\ csv = <<>>
    /\ image = NoImage
    /\ roi = NoRoi
    /\ result = NoneValue
    /\ extracted_text = <<>>
    /\ i = 0
    /\ ret = FALSE
    /\ summary = <<>>
    /\ log = [p \in Pages |-> NewLog]
    /\ wrote = <<>>

Init ==
    /\ start_page \in Pages
    /\ end_page \in (MinPage - 1)..MaxPage
    /\ InitLocals

\* a run over the single page MinPage
InitPage ==
    /\ start_page = MinPage
    /\ end_page = MinPage
    /\ InitLocals

(***************************************************************************)
(* process_pipeline                                                        *)
(***************************************************************************)
\* open(output_filename, 'w') succeeds: the file is created empty
OpenCsv ==
    /\ pc = "open"
    /\ csv_open' = TRUE
    /\ csv' = <<>>
    /\ wrote' = <<>>
    /\ it' = 1
    /\ pc' = "for"
    /\ UNCHANGED <<start_page, end_page, page_num, successful_pages,
                   failed_pages, image, roi, result, extracted_text, i, ret,
                   summary, log>>

\* open raises: caught by the except of main.py:179
OpenCsvError ==
    /\ pc = "open"
    /\ pc' = "aborted"
    /\ UNCHANGED <<start_page, end_page, it, page_num, successful_pages,
                   failed_pages, csv_open, csv, image, roi, result,
                   extracted_text, i, ret, summary, log, wrote>>

\* for page_num in range(start_page, end_page + 1), and the entry of
\* process_single_image
ForNext ==
    /\ pc = "for"
    /\ it <= Len(PageRange(start_page, end_page))
    /\ page_num' = PageRange(start_page, end_page)[it]
    /\ it' = it + 1
    /\ log' = Mark(page_num', "attempts", log[page_num'].attempts + 1)
    /\ pc' = "exists"
    /\ UNCHANGED <<start_page, end_page, successful_pages, failed_pages,
                   csv_open, csv, image, roi, result, extracted_text, i, ret,
                   summary, wrote>>

\* the range is exhausted
ForEnd ==
    /\ pc = "for"
    /\ it > Len(PageRange(start_page, end_page))
    /\ pc' = "close"
    /\ UNCHANGED <<start_page, end_page, it, page_num, successful_pages,
                   failed_pages, csv_open, csv, image, roi, result,
                   extracted_text, i, ret, summary, log, wrote>>

\* if process_single_image(...): successful_pages += 1 else: failed_pages += 1
Count ==
    /\ pc = "count"
    /\ IF ret
       THEN /\ successful_pages' = successful_pages + 1
            /\ failed_pages' = failed_pages
            /\ log' = Mark(page_num, "counted", "success")
       ELSE /\ failed_pages' = failed_pages + 1
            /\ successful_pages' = successful_pages
            /\ log' = Mark(page_num, "counted", "failure")
    /\ extracted_text' = <<>>
    /\ i' = 0
    /\ pc' = "for"
    /\ UNCHANGED <<start_page, end_page, it, page_num, csv_open, csv, image,
                   roi, result, ret, summary, wrote>>

\* leaving the with-block closes the file
CloseCsv ==
    /\ pc = "close"
    /\ csv_open' = FALSE
    /\ pc' = "summary"
    /\ UNCHANGED <<start_page, end_page, it, page_num, successful_pages,
                   failed_pages, csv, image, roi, result, extracted_text, i,
                   ret, summary, log, wrote>>

\* the close raises: caught by the except of main.py:179
CloseCsvError ==
    /\ pc = "close"
    /\ csv_open' = FALSE
    /\ pc' = "aborted"
    /\ UNCHANGED <<start_page, end_page, it, page_num, successful_pages,
                   failed_pages, csv, image, roi, result, extracted_text, i,
                   ret, summary, log, wrote>>

\* the completion summary
Summary ==
    /\ pc = "summary"
    /\ summary' = <<[successful |-> successful_pages,
                     failed |-> failed_pages,
                     total |-> end_page - start_page + 1]>>
    /\ pc' = "done"
    /\ UNCHANGED <<start_page, end_page, it, page_num, successful_pages,
                   failed_pages, csv_open, csv, image, roi, result,
                   extracted_text, i, ret, log, wrote>>

(***************************************************************************)
(* process_single_image                                                    *)
(***************************************************************************)
\* os.path.exists(image_path) is true
FileExists ==
    /\ pc = "exists"
    /\ pc' = "imread"
    /\ UNCHANGED <<start_page, end_page, it, page_num, successful_pages,
                   failed_pages, csv_open, csv, image, roi, result,
                   extracted_text, i, ret, summary, log, wrote>>

\* mutation of FileMissing: the return is missing
FileMissingNoReturn ==
    /\ pc = "exists"
    /\ log' = Mark(page_num, "cause", "missing")
    /\ pc' = "imread"
    /\ UNCHANGED <<start_page, end_page, it, page_num, successful_pages,
                   failed_pages, csv_open, csv, image, roi, result,
                   extracted_text, i, ret, summary, wrote>>

\* os.path.exists(image_path) is false: return False
FileMissing ==
    /\ pc = "exists"
    /\ ret' = FALSE
    /\ log' = Mark(page_num, "cause", "missing")
    /\ pc' = "count"
    /\ UNCHANGED <<start_page, end_page, it, page_num, successful_pages,
                   failed_pages, csv_open, csv, image, roi, result,
                   extracted_text, i, summary, wrote>>

\* mutation of NonEmpty: "is not None" instead of truthiness
NotNone(texts) == TRUE

\* the test of "if extracted_text:"
NonEmpty(texts) == Len(texts) > 0

\* extract_roi_text has returned; if extracted_text: save_to_csv(...);
\* return True / else: return False
Branch ==
    /\ pc = "branch"
    /\ log' = [log EXCEPT ![page_num].extracted = TRUE,
                          ![page_num].texts = extracted_text]
    /\ IF NonEmpty(extracted_text)
       THEN /\ i' = 0
            /\ pc' = "save"
            /\ ret' = ret
       ELSE /\ i' = i
            /\ ret' = FALSE
            /\ pc' = "count"
    /\ result' = NoneValue
    /\ UNCHANGED <<start_page, end_page, it, page_num, successful_pages,
                   failed_pages, csv_open, csv, image, roi, extracted_text,
                   summary, wrote>>

(***************************************************************************)
(* extract_roi_text                                                        *)
(***************************************************************************)
\* cv2.imread returns an array
Imread ==
    /\ pc = "imread"
    /\ \E img \in ImageShapes : image' = img
    /\ pc' = "crop"
    /\ UNCHANGED <<start_page, end_page, it, page_num, successful_pages,
                   failed_pages, csv_open, csv, roi, result, extracted_text,
                   i, ret, summary, log, wrote>>

\* cv2.imread returns None: return []
ImreadNone ==
    /\ pc = "imread"
    /\ image' = NoImage
    /\ extracted_text' = <<>>
    /\ log' = Mark(page_num, "cause", "unloadable")
    /\ pc' = "branch"
    /\ UNCHANGED <<start_page, end_page, it, page_num, successful_pages,
                   failed_pages, csv_open, csv, roi, result, i, ret, summary,
                   wrote>>

\* roi = image[y1:y2, x1:x2]
Crop ==
    /\ pc = "crop"
    /\ roi' = CropShape(image)
    /\ pc' = "preprocess"
    /\ UNCHANGED <<start_page, end_page, it, page_num, successful_pages,
                   failed_pages, csv_open, csv, image, result, extracted_text,
                   i, ret, summary, log, wrote>>

\* preprocess_image(roi) returns
Preprocess ==
    /\ pc = "preprocess"
    /\ ~PreprocessRaises(roi)
    /\ pc' = "ocr"
    /\ UNCHANGED <<start_page, end_page, it, page_num, successful_pages,
                   failed_pages, csv_open, csv, image, roi, result,
                   extracted_text, i, ret, summary, log, wrote>>

\* preprocess_image(roi) raises outside every try of extract_roi_text and
\* process_single_image: the exception leaves the page loop and the
\* with-block and is caught by the except of main.py:179
PreprocessError ==
    /\ pc = "preprocess"
    /\ PreprocessRaises(roi)
    /\ log' = Mark(page_num, "cause", "preprocess_error")
    /\ csv_open' = FALSE
    /\ pc' = "aborted"
    /\ UNCHANGED <<start_page, end_page, it, page_num, successful_pages,
                   failed_pages, csv, image, roi, result, extracted_text, i,
                   ret, summary, wrote>>

\* PaddleOCR(...) raises inside the try: return []
OcrCtorError ==
    /\ pc = "ocr"
    /\ extracted_text' = <<>>
    /\ log' = Mark(page_num, "cause", "ctor_error")
    /\ image' = NoImage
    /\ roi' = NoRoi
    /\ pc' = "branch"
    /\ UNCHANGED <<start_page, end_page, it, page_num, successful_pages,
                   failed_pages, csv_open, csv, result, i, ret, summary,
                   wrote>>

\* ocr.ocr(...) raises: return []
OcrError ==
    /\ pc = "ocr"
    /\ extracted_text' = <<>>
    /\ log' = [log EXCEPT ![page_num].cause = "ocr_error",
                          ![page_num].ocr_calls = @ + 1]
    /\ image' = NoImage
    /\ roi' = NoRoi
    /\ pc' = "branch"
    /\ UNCHANGED <<start_page, end_page, it, page_num, successful_pages,
                   failed_pages, csv_open, csv, result, i, ret, summary,
                   wrote>>

\* result = ocr.ocr(...): a result without lines, or up to n lines with
\* texts of T and confidences of C
OcrReturn(T, C, n) ==
    /\ pc = "ocr"
    /\ \/ \E r \in NoLines : result' = r
       \/ \E k \in 0..n : \E ls \in [1..k -> LinesOver(T, C)] :
              result' = WithLines(ls)
    /\ log' = Mark(page_num, "ocr_calls", log[page_num].ocr_calls + 1)
    /\ image' = NoImage
    /\ roi' = NoRoi
    /\ pc' = "filter"
    /\ UNCHANGED <<start_page, end_page, it, page_num, successful_pages,
                   failed_pages, csv_open, csv, extracted_text, i, ret,
                   summary, wrote>>

\* the confidence filter; return extracted_text
Filter ==
    /\ pc = "filter"
    /\ extracted_text' = ExtractTexts(result)
    /\ log' = Mark(page_num, "cause", "ocr_ok")
    /\ pc' = "branch"
    /\ UNCHANGED <<start_page, end_page, it, page_num, successful_pages,
                   failed_pages, csv_open, csv, image, roi, result, i, ret,
                   summary, wrote>>

(***************************************************************************)
(* save_to_csv                                                             *)
(***************************************************************************)
\* mutation of RowField: the slice is one element short
RowFieldShort(texts, k) == Join(Slice(texts, k, k + ChunkSize - 1))

\* the field of the row written at offset k
RowField(texts, k) == Join(Slice(texts, k, k + ChunkSize))

\* one iteration of the loop: writerow succeeds
SaveRow ==
    /\ pc = "save"
    /\ i < Len(extracted_text)
    /\ csv' = Append(csv, <<RowField(extracted_text, i)>>)
    /\ wrote' = Append(wrote, page_num)
    /\ i' = i + ChunkSize
    /\ UNCHANGED <<start_page, end_page, pc, it, page_num, successful_pages,
                   failed_pages, csv_open, image, roi, result, extracted_text,
                   ret, summary, log>>

\* writerow raises: caught by the except of main.py:106, save_to_csv
\* returns and process_single_image returns True
SaveRowError ==
    /\ pc = "save"
    /\ i < Len(extracted_text)
    /\ log' = Mark(page_num, "write_error", TRUE)
    /\ ret' = TRUE
    /\ pc' = "count"
    /\ UNCHANGED <<start_page, end_page, it, page_num, successful_pages,
                   failed_pages, csv_open, csv, image, roi, result,
                   extracted_text, i, summary, wrote>>

\* the loop ends; process_single_image returns True
SaveDone ==
    /\ pc = "save"
    /\ i >= Len(extracted_text)
    /\ log' = Mark(page_num, "save_done", TRUE)
    /\ ret' = TRUE
    /\ pc' = "count"
    /\ UNCHANGED <<start_page, end_page, it, page_num, successful_pages,
                   failed_pages, csv_open, csv, image, roi, result,
                   extracted_text, i, summary, wrote>>

(***************************************************************************)
(* Specifications.                                                         *)
(***************************************************************************)
Step(T, C, n) ==
    \/ OpenCsv
    \/ OpenCsvError
    \/ ForNext
    \/ ForEnd
    \/ FileExists
    \/ FileMissing
    \/ Imread
    \/ ImreadNone
    \/ Crop
    \/ Preprocess
    \/ PreprocessError
    \/ OcrCtorError
    \/ OcrError
    \/ OcrReturn(T, C, n)
    \/ Filter
    \/ Branch
    \/ SaveRow
    \/ SaveRowError
    \/ SaveDone
    \/ Count
    \/ CloseCsv
    \/ CloseCsvError
    \/ Summary

Next == Step(PipeTexts, PipeConfs, MaxPipeLines)

NextPage == Step(Texts, Confs, MaxLines)

\* the pipeline over every page range within the bounds
Spec == Init /\ [][Next]_vars

\* one page, with every OCR result within the bounds
SpecPage == InitPage /\ [][NextPage]_vars

(***************************************************************************)
(* Vocabulary of the properties.                                           *)
(***************************************************************************)
Terminal == pc \in {"done", "aborted"}

\* the CSV file was opened, so the page loop was entered
Opened == it > 0

InRange(p) == start_page <= p /\ p <= end_page

Counted(p) == log[p].counted # "none"

\* page p is not the page being processed
Finished(p) == page_num # p \/ pc \in {"for", "close", "summary", "done"}

\* extract_roi_text returned a non-empty list for page p
HasTexts(p) == log[p].extracted /\ Len(log[p].texts) > 0

\* the image of page p was read and OCR'd without error and no fragment
\* was above the threshold
NoText(p) == log[p].cause = "ocr_ok" /\ log[p].extracted /\ Len(log[p].texts) = 0

\* the rows of the file that page p wrote, in file order
RowsOf(p) ==
    LET F[k \in 0..Len(csv)] ==
            IF k = 0 THEN <<>>
            ELSE IF wrote[k] = p THEN Append(F[k - 1], csv[k]) ELSE F[k - 1]
    IN F[Len(csv)]

\* ceil(n / ChunkSize)
CeilRows(n) == (n + (ChunkSize - 1)) \div ChunkSize

\* the j-th group of ChunkSize consecutive fragments of a list (j from 1)
Chunk(texts, j) ==
    SubSeq(texts, ChunkSize * (j - 1) + 1, Min(ChunkSize * j, Len(texts)))

\* positions of the separator "  " in a text
SepAt(s) == {k \in 1..(Len(s) - 1) : s[k] = " " /\ s[k + 1] = " "}

\* the fragments read from a field: the field cut at every "  ", scanning
\* from the left
RECURSIVE Split(_)
Split(s) ==
    IF SepAt(s) = {} THEN <<s>>
    ELSE LET k == CHOOSE x \in SepAt(s) : \A y \in SepAt(s) : x <= y
         IN <<SubSeq(s, 1, k - 1)>> \o Split(SubSeq(s, k + 2, Len(s)))

\* the fragments read from the rows, in order
RECURSIVE ReadBack(_)
ReadBack(rows) ==
    IF Len(rows) = 0 THEN <<>>
    ELSE Split(rows[1][1]) \o ReadBack(Tail(rows))

\* a fragment that cannot be confused with the separator: it does not end
\* with a space and holds no two consecutive spaces
Clean(t) == SepAt(t) = {} /\ (Len(t) > 0 => t[Len(t)] # " ")

\* save_to_csv has returned for page p
SaveReturned(p) == log[p].save_done \/ log[p].write_error

(***************************************************************************)
(* C1 (as stated): for every page with n >= 1 accepted fragments,          *)
(* save_to_csv writes exactly ceil(n/4) single-column rows, every row      *)
(* holds 1 to 4 fragments joined by two spaces, every row but the last     *)
(* holds exactly 4, and reading the fragments of the rows in order gives   *)
(* back the fragment list.                                                 *)
(***************************************************************************)
C1_AsStated ==
    \A p \in Pages :
        (HasTexts(p) /\ SaveReturned(p)) =>
            LET texts == log[p].texts
                rows == RowsOf(p)
            IN /\ Len(rows) = CeilRows(Len(texts))
               /\ \A j \in 1..Len(rows) :
                      /\ Len(rows[j]) = 1
                      /\ Len(Split(rows[j][1])) \in 1..ChunkSize
                      /\ (j < Len(rows) => Len(Split(rows[j][1])) = ChunkSize)
               /\ ReadBack(rows) = texts

(***************************************************************************)
(* C1 (amended): for every page with n >= 1 accepted fragments,            *)
(* save_to_csv writes the first k of the ceil(n/4) rows, k = ceil(n/4)     *)
(* unless a writerow raised; row j is a single column holding fragments    *)
(* 4(j-1)+1 .. min(4j, n) joined by two spaces; and when no fragment ends  *)
(* with a space or holds two consecutive spaces, reading the rows back     *)
(* gives the fragments of these k rows unchanged.                          *)
(***************************************************************************)
C1_RowsAreChunks ==
    \A p \in Pages :
        HasTexts(p) =>
            LET texts == log[p].texts
                n == Len(texts)
                rows == RowsOf(p)
            IN /\ Len(rows) <= CeilRows(n)
               /\ (log[p].save_done => Len(rows) = CeilRows(n))
               /\ (Len(rows) < CeilRows(n) /\ SaveReturned(p) => log[p].write_error)
               /\ \A j \in 1..Len(rows) :
                      /\ Len(rows[j]) = 1
                      /\ rows[j][1] = Join(Chunk(texts, j))
                      /\ Len(Chunk(texts, j)) \in 1..ChunkSize
                      /\ (j < CeilRows(n) => Len(Chunk(texts, j)) = ChunkSize)
               /\ (\A k \in 1..n : Clean(texts[k])) =>
                      ReadBack(rows) = SubSeq(texts, 1, Min(n, ChunkSize * Len(rows)))

\* a page with more fragments than one row holds, some of them with a
\* space, all of its rows written
C1_Witness ==
    \E p \in Pages :
        /\ HasTexts(p)
        /\ log[p].save_done
        /\ Len(log[p].texts) > ChunkSize
        /\ Len(RowsOf(p)) = 2
        /\ \A k \in 1..Len(log[p].texts) : Clean(log[p].texts[k])
        /\ \E k \in 1..Len(log[p].texts) : Len(log[p].texts[k]) = 0
        /\ \E k \in 1..Len(log[p].texts) : Len(log[p].texts[k]) > 0

\* the lines of the first element of a result, <<>> when there are none
FirstLines(res) ==
    IF res.isNone \/ Len(res.items) = 0 THEN <<>>
    ELSE IF res.items[1].isNone THEN <<>>
    ELSE res.items[1].items

\* the positions of the lines above the threshold
Above(lines) == {k \in 1..Len(lines) : lines[k].confidence > ConfThreshold}

\* the j-th smallest element of a set of positions
Nth(S, j) == CHOOSE k \in S : Cardinality({x \in S : x <= k}) = j

(***************************************************************************)
(* C8: extract_roi_text returns exactly the texts of the lines whose       *)
(* confidence is strictly greater than the threshold, in the order of the  *)
(* engine; a line at the threshold is rejected; no result or an empty      *)
(* first element gives the empty list.                                     *)
(***************************************************************************)
C8_StrictFilter ==
    (pc = "branch" /\ log[page_num].cause = "ocr_ok") =>
        LET lines == FirstLines(result)
            keep == Above(lines)
        IN /\ Len(extracted_text) = Cardinality(keep)
           /\ \A j \in 1..Len(extracted_text) :
                  extracted_text[j] = lines[Nth(keep, j)].text
           /\ (Len(lines) = 0 => extracted_text = <<>>)

\* a result with a line below, a line at and two lines above the threshold
C8_Witness ==
    /\ pc = "branch"
    /\ log[page_num].cause = "ocr_ok"
    /\ LET lines == FirstLines(result)
       IN /\ \E k \in 1..Len(lines) : lines[k].confidence = ConfThreshold
          /\ \E k \in 1..Len(lines) : lines[k].confidence < ConfThreshold
          /\ Cardinality(Above(lines)) = 2
          /\ Len(extracted_text) = 2
          /\ extracted_text[1] # extracted_text[2]

(***************************************************************************)
(* C2 (as stated): process_pipeline attempts exactly the pages             *)
(* start_page..end_page, each exactly once and in ascending order, and a   *)
(* page is fully processed before any step of the next page begins.  Once  *)
(* the CSV file is open, the run therefore ends with every page of the     *)
(* range attempted and counted.                                            *)
(***************************************************************************)
C2_AsStated ==
    /\ \A p \in Pages :
           log[p].attempts = IF Opened /\ InRange(p) /\ p <= page_num THEN 1 ELSE 0
    /\ \A p \in Pages : (log[p].attempts > 0 /\ p < page_num) => Counted(p)
    /\ (Terminal /\ Opened) =>
           \A p \in Pages : InRange(p) => (log[p].attempts = 1 /\ Counted(p))

\* the rows of pages lo..hi, page after page
RECURSIVE RowsOfPages(_, _)
RowsOfPages(lo, hi) ==
    IF lo > hi THEN <<>> ELSE RowsOf(lo) \o RowsOfPages(lo + 1, hi)

(***************************************************************************)
(* C3: the rows of the CSV are in page order: at every point of the run    *)
(* the file is the concatenation, in ascending page number, of the rows    *)
(* written for the pages processed so far, and no row of a page p comes    *)
(* after a row of a page q > p.                                            *)
(***************************************************************************)
C3_PageOrder ==
    /\ Len(wrote) = Len(csv)
    /\ \A k \in 1..Len(wrote) : InRange(wrote[k]) /\ wrote[k] <= page_num
    /\ \A k \in 1..(Len(wrote) - 1) : wrote[k] <= wrote[k + 1]
    /\ csv = RowsOfPages(MinPage, MaxPage)
    /\ \A p \in Pages :
           /\ Len(RowsOf(p)) <= CeilRows(Len(log[p].texts))
           /\ \A j \in 1..Len(RowsOf(p)) : RowsOf(p)[j] = <<Join(Chunk(log[p].texts, j))>>
           /\ (log[p].save_done => Len(RowsOf(p)) = CeilRows(Len(log[p].texts)))

\* three pages wrote rows, one of them two rows
C3_Witness ==
    /\ Cardinality({wrote[k] : k \in 1..Len(wrote)}) = 3
    /\ Len(csv) >= 4
    /\ \E p \in Pages : Len(RowsOf(p)) = 2 /\ p < page_num
    /\ pc = "done"

\* what holds of a page whose file was missing
C4_Inv ==
    \A p \in Pages :
        log[p].cause = "missing" =>
            /\ log[p].ocr_calls = 0
            /\ ~log[p].extracted
            /\ RowsOf(p) = <<>>
            /\ log[p].counted # "success"
            /\ (Finished(p) => log[p].counted = "failure")
            /\ (pc = "aborted" /\ page_num = p) => Counted(p)

\* the steps of a page whose file is missing
C4_Act ==
    /\ (pc = "exists" /\ pc' # "imread") =>
           (pc' = "count" /\ ret' = FALSE /\ csv' = csv
                /\ log'[page_num].cause = "missing")
    /\ (pc = "count" /\ log[page_num].cause = "missing") =>
           /\ failed_pages' = failed_pages + 1
           /\ successful_pages' = successful_pages
           /\ csv' = csv
           /\ pc' = "for"
    /\ (pc = "for" /\ page_num # NoPage /\ log[page_num].cause = "missing"
            /\ page_num < end_page) =>
           (pc' = "exists" /\ page_num' = page_num + 1)

(***************************************************************************)
(* C4: when the image file of a page does not exist the page is skipped:   *)
(* the OCR engine is not invoked for it, no row is written for it, the     *)
(* failure counter increases by one, the success counter is unchanged,     *)
(* and the loop goes on to the next page.                                  *)
(***************************************************************************)
C4_MissingSkipped == [](C4_Inv) /\ [][C4_Act]_vars

\* a missing page was counted and the page after it is being processed
C4_Witness ==
    \E p \in Pages :
        /\ log[p].cause = "missing"
        /\ log[p].counted = "failure"
        /\ failed_pages = 1
        /\ successful_pages = 1
        /\ Len(csv) > 0
        /\ page_num = p + 1
        /\ pc = "ocr"

(***************************************************************************)
(* C5 (as stated): when the OCR call of a page raises, extract_roi_text    *)
(* returns the empty list, the page is counted as a failure with no row    *)
(* written, the OCR call is not retried (at most one invocation per        *)
(* page), and every later page of the range is still processed.            *)
(***************************************************************************)
C5_AsStated ==
    \A p \in Pages :
        log[p].cause = "ocr_error" =>
            /\ (page_num = p /\ pc = "branch") => extracted_text = <<>>
            /\ log[p].extracted => log[p].texts = <<>>
            /\ RowsOf(p) = <<>>
            /\ log[p].counted # "success"
            /\ (Finished(p) => log[p].counted = "failure")
            /\ log[p].ocr_calls = 1
            /\ Terminal => \A q \in Pages : (p < q /\ q <= end_page) => Counted(q)

(***************************************************************************)
(* C6 (as stated): no failure of a single page aborts the run: once the    *)
(* CSV file is open the pipeline goes through every page of the range,     *)
(* and the run is aborted only by a failure of the CSV file handle         *)
(* (opening it, or closing it after the last page).                        *)
(***************************************************************************)
C6_AsStated ==
    /\ (Terminal /\ Opened) => \A p \in Pages : InRange(p) => Counted(p)
    /\ pc = "aborted" =>
           \/ ~Opened
           \/ \A p \in Pages : log[p].attempts > 0 => Counted(p)

(***************************************************************************)
(* C7 (as stated): successful_pages + failed_pages is the number of pages  *)
(* already processed, each page increments exactly one of the counters by  *)
(* one, and when the summary is printed the sum equals                     *)
(* end_page - start_page + 1, the reported total.                          *)
(***************************************************************************)
C7_AsStated ==
    /\ successful_pages = Cardinality({p \in Pages : log[p].counted = "success"})
    /\ failed_pages = Cardinality({p \in Pages : log[p].counted = "failure"})
    /\ successful_pages + failed_pages = Cardinality({p \in Pages : Counted(p)})
    /\ summary # <<>> =>
           /\ summary[1].total = end_page - start_page + 1
           /\ summary[1].successful + summary[1].failed = summary[1].total

\* page p took one of the paths that return False
FailCause(p) ==
    \/ log[p].cause \in {"missing", "unloadable", "ctor_error", "ocr_error"}
    \/ NoText(p)

(***************************************************************************)
(* C9: a page counted as a failure leaves the CSV unchanged, and a page    *)
(* whose file is missing, whose image cannot be loaded, whose OCR raises,  *)
(* or whose OCR yields no fragment above the threshold is counted as a     *)
(* failure, not a success, and contributes no row.                         *)
(***************************************************************************)
C9_FailureWritesNothing ==
    \A p \in Pages :
        /\ log[p].counted = "failure" => (RowsOf(p) = <<>> /\ FailCause(p))
        /\ FailCause(p) =>
               /\ RowsOf(p) = <<>>
               /\ log[p].counted # "success"
               /\ (Finished(p) => log[p].counted = "failure")
               /\ (page_num = p /\ pc = "count") => ~ret

\* pages failed for three different reasons, one of them by yielding no
\* text, between and after pages that wrote rows
C9_Witness ==
    /\ pc = "done"
    /\ failed_pages = 2
    /\ Len(csv) = 2
    /\ \E p \in Pages : NoText(p) /\ log[p].counted = "failure" /\ log[p].ocr_calls = 1
    /\ \E p \in Pages : log[p].cause = "unloadable" /\ log[p].counted = "failure"

(***************************************************************************)
(* C10 (as stated): every page counted as successful has all of its rows   *)
(* in the CSV: exactly ceil(n/4) >= 1 rows for n accepted fragments, also  *)
(* when a row write raises inside save_to_csv.                             *)
(***************************************************************************)
C10_AsStated ==
    \A p \in Pages :
        log[p].counted = "success" =>
            /\ Len(RowsOf(p)) = CeilRows(Len(log[p].texts))
            /\ Len(RowsOf(p)) >= 1

====
